---- MODULE Spec2Model ----
(***************************************************************************)
(* Sentinel: adaptive streaming anomaly detector.                          *)
(*                                                                         *)
(* Number representation.  TLC has only bounded integers, so every real    *)
(* of the program is kept in fixed point and every product is rounded      *)
(* down, the way the program's float64 rounds to nearest:                  *)
(*   feature values, mu .......... whole units                             *)
(*   cov entries ................. whole units (squared feature units)     *)
(*   epsilon ..................... ten-thousandths (EPSILON_BASE = 1e-4)   *)
(*   lambda ...................... thousandths                             *)
(*   distance, threshold, severity, risk, c_t ... hundredths               *)
(* The inverse of a regularised covariance is kept as the pair             *)
(* (cov, eps) it inverts, cov + (eps/10^4) I, since its entries span more  *)
(* than the 31 bits TLC has; the quadratic form divides by that diagonal.  *)
(* numpy's cond, inv and pinv are computed for diagonal matrices, which is *)
(* what every matrix of the model is: one feature of the stream varies and *)
(* the other is constant.                                                  *)
(***************************************************************************)
EXTENDS Integers, Sequences, FiniteSets, TLC

\* Python's None; the empty tuple is the one value TLC compares with every
\* vector, matrix and record.
None == <<>>

\* ---------------------------------------------------------------- bounds
\* Ticks, over all processes, and process restarts explored by TLC.
MaxTicks == 9
MaxRestarts == 1
\* Calls explored when one component is driven on its own.
MaxCalls == 4
\* defaults.DEFAULT_TRAINING_SECONDS is 1800 (one tick a second); the model
\* trains on this many smoothed samples instead.
DEFAULT_TRAINING_SECONDS == 3

\* ------------------------------------------------------ program constants
LAMBDA_SHORT == 10
LAMBDA_LONG == 1
EPSILON_BASE == 1
CONDITION_NUMBER == 1000000
CONTAMINATION_LIMIT == 80
RISK_ALERT_THRESHOLD == 2000
CUSUM_K == 5
CUSUM_THRESHOLD == 1000
window_size == 5
max_retries == 5

\* ------------------------------------------------------------------ units
LambdaDen == 10 ^ 3
EpsDen == 10 ^ 4
Cent == 10 ^ 2

FEATURE_KEYS == <<"disk_read_rate", "cpu_temperature">>
Dim == Len(FEATURE_KEYS)
Idx == 1..Dim

\* ------------------------------------------------------------ arithmetic
Abs(a) == IF a < 0 THEN -a ELSE a
Max(a, b) == IF a >= b THEN a ELSE b
Min(a, b) == IF a <= b THEN a ELSE b

\* <<q, r>> with a * b = q * c + r and 0 <= r < c, for a, b >= 0 and
\* a, c < 2^30, without ever forming the product a * b.
RECURSIVE MulDivQR(_, _, _)
MulDivQR(a, b, c) ==
    IF b = 0 THEN <<0, 0>>
    ELSE LET h == MulDivQR(a, b \div 2, c)
             q2 == 2 * h[1] + (2 * h[2]) \div c
             r2 == (2 * h[2]) % c
         IN IF b % 2 = 0 THEN <<q2, r2>>
            ELSE <<q2 + (r2 + a) \div c, (r2 + a) % c>>

\* a * b / c rounded toward zero.
MulDiv(a, b, c) ==
    IF a < 0 THEN -(MulDivQR(-a, b, c)[1]) ELSE MulDivQR(a, b, c)[1]

RECURSIVE SqrtBetween(_, _, _)
SqrtBetween(n, lo, hi) ==
    IF lo >= hi THEN lo
    ELSE LET mid == (lo + hi + 1) \div 2
         IN IF mid <= n \div mid THEN SqrtBetween(n, mid, hi)
            ELSE SqrtBetween(n, lo, mid - 1)

\* np.sqrt, rounded down.
Sqrt(n) == IF n <= 0 THEN 0 ELSE SqrtBetween(n, 1, Min(n, 46340))

RECURSIVE SumSeq(_)
SumSeq(s) == IF s = <<>> THEN 0 ELSE Head(s) + SumSeq(Tail(s))

RECURSIVE Insert(_, _)
Insert(x, s) ==
    IF s = <<>> THEN <<x>>
    ELSE IF x <= Head(s) THEN <<x>> \o s
    ELSE <<Head(s)>> \o Insert(x, Tail(s))

RECURSIVE SortAsc(_)
SortAsc(s) == IF s = <<>> THEN <<>> ELSE Insert(Head(s), SortAsc(Tail(s)))

ZeroVector == [i \in Idx |-> 0]
ZeroMatrix == [i \in Idx |-> [j \in Idx |-> 0]]
IsDiagonal(m) == \A i \in Idx : \A j \in Idx : i # j => m[i][j] = 0

\* np.mean(rows, axis=0)
MeanRows(rows) ==
    [i \in Idx |-> SumSeq([n \in 1..Len(rows) |-> rows[n][i]]) \div Len(rows)]

\* np.cov(data, rowvar=False): the unbiased sample covariance,
\* sum((x_i - m_i)(x_j - m_j)) / (N - 1), from the exact sums
\* (N sum(x_i x_j) - sum(x_i) sum(x_j)) / (N (N - 1)).
CovRows(rows) ==
    LET N == Len(rows)
        S(i) == SumSeq([n \in 1..N |-> rows[n][i]])
        P(i, j) == SumSeq([n \in 1..N |-> rows[n][i] * rows[n][j]])
    IN [i \in Idx |-> [j \in Idx |->
            LET num == N * P(i, j) - S(i) * S(j)
            IN IF num >= 0 THEN num \div (N * (N - 1))
               ELSE -((-num) \div (N * (N - 1)))]]

\* np.percentile(values, 99): linear interpolation between the two order
\* statistics around position 0.99 (N - 1).
Percentile99(values) ==
    LET s == SortAsc(values)
        pos == 99 * (Len(s) - 1)
        lo == pos \div 100 + 1
        hi == Min(lo + 1, Len(s))
    IN s[lo] + ((pos % 100) * (s[hi] - s[lo])) \div 100

\* ------------------------------------------------ core/stability.py
\* cov + np.eye(d) * epsilon, kept as the pair: see the head of the module.
apply_regularization(cov, epsilon) == [cov |-> cov, eps |-> epsilon]

DiagMax(m) == CHOOSE v \in {m[i][i] : i \in Idx} : \A i \in Idx : m[i][i] <= v
DiagMin(m) == CHOOSE v \in {m[i][i] : i \in Idx} : \A i \in Idx : m[i][i] >= v

\* n * eps / EpsDen rounded up.
EpsTimesCeil(n, eps) ==
    LET qr == MulDivQR(n, eps, EpsDen)
    IN qr[1] + (IF qr[2] > 0 THEN 1 ELSE 0)

\* np.linalg.cond of the diagonal matrix cov + (eps/EpsDen) I, whose
\* singular values are its diagonal: (hi + e) / (lo + e), rounded down.
\* Exactly CONDITION_NUMBER stands for every value at or above it (inf
\* included): the result is only ever compared with CONDITION_NUMBER.
check_condition_number(reg) ==
    LET hi == DiagMax(reg.cov)
        lo == DiagMin(reg.cov)
        K == CONDITION_NUMBER
        \* (hi + e) >= K (lo + e)  <=>  hi - K lo >= (K - 1) e
        atLeastK == /\ lo <= 2147
                    /\ hi - K * lo >= EpsTimesCeil(K - 1, reg.eps)
    IN IF atLeastK THEN K
       ELSE IF lo <= 100000
       THEN LET den == lo * EpsDen + reg.eps
                qr == MulDivQR(hi, EpsDen, den)
            IN qr[1] + (qr[2] + reg.eps) \div den
       ELSE LET q0 == hi \div lo
            IN IF hi % lo >= EpsTimesCeil(q0 - 1, reg.eps) THEN q0 ELSE q0 - 1

\* np.linalg.inv / np.linalg.pinv of a regularised (positive definite)
\* matrix: the inverse is named by the matrix it inverts.
linalg_inv(reg) == [inverse_of |-> reg]

linalg_pinv(reg) == [inverse_of |-> reg]

RECURSIVE safe_invert_loop(_, _, _)
safe_invert_loop(cov, current_eps, tries) ==
    IF tries = 0 THEN None
    ELSE LET reg_cov == apply_regularization(cov, current_eps)
             cond_num == check_condition_number(reg_cov)
         IN IF cond_num < CONDITION_NUMBER
            THEN <<linalg_inv(reg_cov), FALSE, current_eps>>
            ELSE safe_invert_loop(cov, current_eps * 10, tries - 1)

\* safe_invert that gives up one attempt earlier
safe_invert_four_tries(cov) ==
    LET found == safe_invert_loop(cov, EPSILON_BASE, max_retries - 1)
    IN IF found # None THEN found
       ELSE <<linalg_pinv(apply_regularization(cov, EPSILON_BASE)), TRUE,
              EPSILON_BASE>>

\* <<inverse, freeze flag, epsilon used>>
safe_invert(cov) ==
    LET found == safe_invert_loop(cov, EPSILON_BASE, max_retries)
    IN IF found # None THEN found
       ELSE <<linalg_pinv(apply_regularization(cov, EPSILON_BASE)), TRUE,
              EPSILON_BASE>>

\* ------------------------------------------------ utils/math_utils.py
\* The largest distance and severity kept exactly, in hundredths.  A
\* float holds any value met here; a larger one is carried as the cap,
\* which lies above every limit the code compares a distance or severity
\* with, so each branch taken is the one the code takes.
DistanceCap == 30000
SeverityCap == 20000
QuadCap == DistanceCap * DistanceCap

\* a * b / c rounded toward zero, or QuadCap where the quotient reaches it.
MulDivCapped(a, b, c) ==
    IF c <= MulDiv(a, b, QuadCap) THEN QuadCap ELSE MulDiv(a, b, c)

\* One term d * (1 / (v + eps/EpsDen)) * d of delta @ cov_inv @ delta, in
\* ten-thousandths; an eps below one unit is dropped beside a v whose sum
\* with it no longer fits.
QuadTerm(d, v, eps) ==
    IF d = 0 THEN 0
    ELSE IF v <= 100000
         THEN MulDivCapped(d * d, EpsDen * Cent * Cent, v * EpsDen + eps)
         ELSE MulDivCapped(d * d, Cent * Cent, v + eps \div EpsDen)

\* sqrt(max(0, delta @ cov_inv @ delta)), in hundredths.
calculate_mahalanobis(x, mu, cov_inv) ==
    LET delta == [i \in Idx |-> x[i] - mu[i]]
        reg == cov_inv.inverse_of
        m_squared ==
            SumSeq([i \in Idx |-> QuadTerm(delta[i], reg.cov[i][i], reg.eps)])
    IN Sqrt(Min(QuadCap, Max(0, m_squared)))

\* ------------------------------------------------------ core/updates.py
update_mean(mu_t, x_t, lambda_factor) ==
    [i \in Idx |->
        ((LambdaDen - lambda_factor) * mu_t[i] + lambda_factor * x_t[i])
            \div LambdaDen]

\* (1 - lambda) c + lambda r for one entry, rounded down.
Blend(c, r, lambda_factor) ==
    IF c >= 0 /\ r >= 0
    THEN LET a == MulDivQR(c, LambdaDen - lambda_factor, LambdaDen)
             b == MulDivQR(r, lambda_factor, LambdaDen)
         IN a[1] + b[1] + (a[2] + b[2]) \div LambdaDen
    ELSE MulDiv(c, LambdaDen - lambda_factor, LambdaDen)
         + MulDiv(r, lambda_factor, LambdaDen)

update_covariance(cov_t, mu_t, x_t, lambda_factor) ==
    LET diff == [i \in Idx |-> x_t[i] - mu_t[i]]
        rank_one_update == [i \in Idx |-> [j \in Idx |-> diff[i] * diff[j]]]
    IN [i \in Idx |-> [j \in Idx |->
            Blend(cov_t[i][j], rank_one_update[i][j], lambda_factor)]]

\* ------------------------------------------------ core/contamination.py
is_contaminated(severity, severity_limit) == severity >= severity_limit

\* -------------------------------------------------------- core/model.py
StatisticalModel(lambda_factor) ==
    [lambda_factor |-> lambda_factor, mu |-> None, cov |-> None,
     cov_inv |-> None, threshold |-> 0, is_initialized |-> FALSE,
     is_frozen |-> FALSE]

initialize_from_batch(self, data) ==
    LET mu == MeanRows(data)
        cov == CovRows(data)
        inverted == safe_invert(cov)
        distances ==
            [n \in 1..Len(data) |-> calculate_mahalanobis(data[n], mu, inverted[1])]
    IN [self EXCEPT !.mu = mu, !.cov = cov, !.cov_inv = inverted[1],
                    !.is_frozen = inverted[2],
                    !.threshold = Percentile99(distances),
                    !.is_initialized = TRUE]

\* update without the contamination gate.
model_update_ungated(self, x_t, severity, severity_limit) ==
    IF ~self.is_initialized \/ self.is_frozen THEN self
    ELSE LET new_cov == update_covariance(self.cov, self.mu, x_t, self.lambda_factor)
             new_mu == update_mean(self.mu, x_t, self.lambda_factor)
             inverted == safe_invert(new_cov)
         IN IF inverted[2] THEN [self EXCEPT !.is_frozen = TRUE]
            ELSE [self EXCEPT !.cov = new_cov, !.mu = new_mu,
                              !.cov_inv = inverted[1]]

\* update with the mean moved before the covariance is computed.
model_update_mean_first(self, x_t, severity, severity_limit) ==
    IF ~self.is_initialized \/ self.is_frozen THEN self
    ELSE IF severity >= severity_limit THEN self
    ELSE LET new_mu == update_mean(self.mu, x_t, self.lambda_factor)
             new_cov == update_covariance(self.cov, new_mu, x_t, self.lambda_factor)
             inverted == safe_invert(new_cov)
         IN IF inverted[2] THEN [self EXCEPT !.is_frozen = TRUE]
            ELSE [self EXCEPT !.cov = new_cov, !.mu = new_mu,
                              !.cov_inv = inverted[1]]

model_update(self, x_t, severity, severity_limit) ==
    IF ~self.is_initialized \/ self.is_frozen THEN self
    ELSE IF severity >= severity_limit THEN self
    ELSE LET new_cov == update_covariance(self.cov, self.mu, x_t, self.lambda_factor)
             new_mu == update_mean(self.mu, x_t, self.lambda_factor)
             inverted == safe_invert(new_cov)
         IN IF inverted[2] THEN [self EXCEPT !.is_frozen = TRUE]
            ELSE [self EXCEPT !.cov = new_cov, !.mu = new_mu,
                              !.cov_inv = inverted[1]]

\* ------------------------------------------------------ core/anomaly.py
calculate_severity(x_t, mu, cov_inv, threshold) ==
    IF threshold <= 0 THEN 0
    ELSE Min(SeverityCap,
             (calculate_mahalanobis(x_t, mu, cov_inv) * Cent) \div threshold)

\* update with the risk reset, not halved, on an alert.
risk_update_reset(risk, alert_threshold, severity) ==
    LET bumped == IF severity > Cent
                  THEN risk + (4 * (severity - Cent) * (severity - Cent)) \div Cent
                  ELSE (risk * 95) \div 100
        is_anomaly == bumped > alert_threshold
    IN <<IF is_anomaly THEN 0 ELSE bumped, is_anomaly>>

\* <<risk, is_anomaly>>
risk_update(risk, alert_threshold, severity) ==
    LET bumped == IF severity > Cent
                  THEN risk + (4 * (severity - Cent) * (severity - Cent)) \div Cent
                  ELSE (risk * 95) \div 100
        is_anomaly == bumped > alert_threshold
    IN <<IF is_anomaly THEN bumped \div 2 ELSE bumped, is_anomaly>>

\* -------------------------------------------------------- core/drift.py
\* update_cusum without the clamp at zero.
update_cusum_unclamped(c_t, k, threshold, severity) ==
    LET c == c_t + (severity - k)
        is_drift == c > threshold
    IN <<IF is_drift THEN 0 ELSE c, is_drift>>

\* update_cusum with drift reported at the threshold already.
update_cusum_at_threshold(c_t, k, threshold, severity) ==
    LET c == Max(0, c_t + (severity - k))
        is_drift == c >= threshold
    IN <<IF is_drift THEN 0 ELSE c, is_drift>>

\* <<c_t, is_drift>>
update_cusum(c_t, k, threshold, severity) ==
    LET c == Max(0, c_t + (severity - k))
        is_drift == c > threshold
    IN <<IF is_drift THEN 0 ELSE c, is_drift>>

\* ------------------------------------------------------- data/features.py
\* [metrics.get(key, 0.0) for key in FEATURE_KEYS]
build_feature_vector(metrics) ==
    [i \in Idx |-> IF FEATURE_KEYS[i] \in DOMAIN metrics
                   THEN metrics[FEATURE_KEYS[i]] ELSE 0]

\* ------------------------------------- utils/math_utils.py, data/smoothing.py
\* a deque without maxlen
window_append_unbounded(buffer, value) == buffer \o <<value>>

\* deque(maxlen=window_size).append
window_append(buffer, value) ==
    IF Len(buffer) = window_size THEN Tail(buffer) \o <<value>>
    ELSE buffer \o <<value>>

\* <<window afterwards, smoothed vector or None>>
smoother_process(buffer, raw_metrics) ==
    LET x_raw == build_feature_vector(raw_metrics)
        appended == window_append(buffer, x_raw)
    IN <<appended,
         IF Len(appended) = window_size THEN MeanRows(appended) ELSE None>>

\* ------------------------------------------------- core/persistence.py
\* What a file holds.  A model archive: absent, unreadable as an archive,
\* or the three arrays; state.json: absent, text that is not JSON, bytes
\* that are not UTF-8 text, a JSON object (a function from its keys) or a
\* JSON number.
MissingFile == [kind |-> "missing"]
CorruptFile == [kind |-> "corrupt"]
UndecodableFile == [kind |-> "undecodable"]
ArchiveFile(mu, cov, cov_inv) ==
    [kind |-> "archive", mu |-> mu, cov |-> cov, cov_inv |-> cov_inv]
JsonObject(fields) == [kind |-> "object", fields |-> fields]
JsonNumber(n) == [kind |-> "number", val |-> n]

\* The file afterwards: nothing is written when an array is None.
save_model(file, mu, cov, cov_inv) ==
    IF mu = None \/ cov = None \/ cov_inv = None THEN file
    ELSE ArchiveFile(mu, cov, cov_inv)

\* The dict of arrays, or None.
load_model(file) ==
    IF file.kind = "missing" THEN None
    ELSE IF file.kind = "archive"
    THEN [mu |-> file.mu, cov |-> file.cov, cov_inv |-> file.cov_inv]
    ELSE None

save_state(state_dict) == JsonObject(state_dict)

\* An exception that leaves the function.
Raised == [kind |-> "raised"]

\* json.load's value: a JSON object or number as it stands, {} for an absent
\* file and for text that is not JSON (json.JSONDecodeError is the one
\* exception caught); bytes that are not UTF-8 raise UnicodeDecodeError.
load_state(file) ==
    IF file.kind = "missing" THEN JsonObject(<<>>)
    ELSE IF file.kind = "corrupt" THEN JsonObject(<<>>)
    ELSE IF file.kind = "undecodable" THEN Raised
    ELSE file

\* --------------------------------------------------- services/engine.py
VARIABLES
    proc,              \* "up": an engine exists; "failed": its constructor
                       \* raised; "down": the process has ended
    disk,              \* the three artefacts under BASE_DIR
    window,            \* smoother.window.buffer
    training_target, training_buffer, is_training,
    model_short, model_long,
    risk,              \* risk_accumulator.risk
    c_t,               \* drift_detector.c_t
    ui,                \* the snapshot last handed to ui_callback, or None
    last,              \* what the last operation was and what it computed
    ticks, restarts,   \* ticks and restarts so far, over all processes
    sched,             \* the EngineScheduler, its worker threads and the
                       \* thread that last wrote engine state
    channel,           \* snapshots emitted and not yet handled by the UI
                       \* thread, each with the number of its tick
    aw,                \* the atomic_write in progress, its temp file and
                       \* what readers of the target have seen
    frame              \* where the worker is inside a tick that completes
                       \* training, with that tick's locals, and where the
                       \* UI thread is inside EngineWorker.stop

vars == <<proc, disk, window, training_target, training_buffer, is_training,
          model_short, model_long, risk, c_t, ui, last, ticks, restarts,
          sched, channel, aw, frame>>

\* The parts outside the engine object.
outside == <<sched, channel, aw, frame>>

\* No tick is in flight and EngineWorker.stop has not been called.
NoFrame ==
    [worker |-> "idle", progress |-> 0,
     metrics |-> [disk_read_rate |-> 0, cpu_temperature |-> 0],
     controller |-> "idle", written |-> 0]

\* The fields __init__ sets before _attempt_load_state runs.
FreshEngine ==
    [window |-> <<>>,
     model_short |-> StatisticalModel(LAMBDA_SHORT),
     model_long |-> StatisticalModel(LAMBDA_LONG),
     risk |-> 0, c_t |-> 0,
     training_target |-> DEFAULT_TRAINING_SECONDS,
     training_buffer |-> <<>>,
     is_training |-> TRUE,
     raised |-> FALSE]

\* `"threshold" in system_state` raises TypeError for a JSON number.
HasThresholdRaises(system_state) == system_state.kind = "number"

HasThreshold(system_state) ==
    system_state.kind = "object" /\ "threshold" \in DOMAIN system_state.fields

\* The engine as __init__ leaves it given the files; raised: an exception
\* left the constructor.
attempt_load_state(self, files) ==
    LET short_state == load_model(files.short)
        long_state == load_model(files.long)
        system_state == load_state(files.state)
    IN IF system_state = Raised THEN [self EXCEPT !.raised = TRUE]
       ELSE IF short_state = None \/ long_state = None THEN self
       ELSE IF HasThresholdRaises(system_state)
       THEN [self EXCEPT !.raised = TRUE]
       ELSE IF ~HasThreshold(system_state) THEN self
       ELSE [self EXCEPT
                !.model_short = [@ EXCEPT
                    !.mu = short_state.mu, !.cov = short_state.cov,
                    !.cov_inv = short_state.cov_inv,
                    !.threshold = system_state.fields["threshold"],
                    !.is_initialized = TRUE],
                !.model_long = [@ EXCEPT
                    !.mu = long_state.mu, !.cov = long_state.cov,
                    !.cov_inv = long_state.cov_inv,
                    !.threshold = system_state.fields["threshold"],
                    !.is_initialized = TRUE],
                !.risk = IF "risk" \in DOMAIN system_state.fields
                         THEN system_state.fields["risk"] ELSE 0,
                !.is_training = FALSE]

SentinelEngine(files) == attempt_load_state(FreshEngine, files)

\* The files after _save_all_state.
save_all_state(files, short, long, risk_now) ==
    [short |-> save_model(files.short, short.mu, short.cov, short.cov_inv),
     long |-> save_model(files.long, long.mu, long.cov, long.cov_inv),
     state |-> save_state([threshold |-> long.threshold, risk |-> risk_now])]

\* The files when the process dies inside _save_all_state with the first
\* `written` of its three atomic writes done.
save_all_state_killed(files, short, long, risk_now, written) ==
    LET done == save_all_state(files, short, long, risk_now)
    IN [short |-> IF written >= 1 THEN done.short ELSE files.short,
        long |-> IF written >= 2 THEN done.long ELSE files.long,
        state |-> files.state]

\* np.linalg.norm(mu_short - mu_long), in whole units.
calculate_divergence(mu_short, mu_long) ==
    Sqrt(SumSeq([i \in Idx |-> (mu_short[i] - mu_long[i]) * (mu_short[i] - mu_long[i])]))

\* ---------------------------------------------------------------- inputs
\* What collect() can return: the disk rate is idle or busy, and the
\* temperature sensor is absent (collector.py reports 0.0 then).
RawRates == {0, 6000}
RawMetrics == [disk_read_rate : RawRates, cpu_temperature : {0}]
\* The durations the retrain button offers, scaled like
\* DEFAULT_TRAINING_SECONDS.
RetrainTargets == {2}

Diag(a, b) == <<<<a, 0>>, <<0, b>>>>

\* Files an earlier, long run left behind at its shutdown: a quiet long-term
\* baseline, a short-term model that has followed a recent busy spell, and
\* the threshold and risk of that run.  Each archive holds the inverse
\* safe_invert gives for its covariance.
PriorShort ==
    [mu |-> <<3600, 0>>, cov |-> Diag(955000, 0),
     cov_inv |-> safe_invert(Diag(955000, 0))[1]]
PriorLong ==
    [mu |-> <<1200, 0>>, cov |-> Diag(160000, 0),
     cov_inv |-> safe_invert(Diag(160000, 0))[1]]
PriorThreshold == 150
PriorRisk == 0
EmptyDisk ==
    [short |-> MissingFile, long |-> MissingFile, state |-> MissingFile]
PriorDisk ==
    [short |-> ArchiveFile(PriorShort.mu, PriorShort.cov, PriorShort.cov_inv),
     long |-> ArchiveFile(PriorLong.mu, PriorLong.cov, PriorLong.cov_inv),
     state |-> JsonObject([threshold |-> PriorThreshold, risk |-> PriorRisk])]
\* A first start, and a start over the earlier run's files.
InitialDisks == {EmptyDisk, PriorDisk}

\* Every condition the three files can be in when the process starts.
ModelFiles(prior) ==
    {MissingFile, CorruptFile, ArchiveFile(prior.mu, prior.cov, prior.cov_inv)}
StateFiles ==
    {MissingFile, CorruptFile, UndecodableFile,
     JsonObject([threshold |-> PriorThreshold, risk |-> 1200]),
     JsonObject([threshold |-> PriorThreshold]),
     JsonObject([risk |-> 1200]),
     JsonObject(<<>>),
     JsonNumber(5)}
AllDisks ==
    [short : ModelFiles(PriorShort), long : ModelFiles(PriorLong),
     state : StateFiles]

\* ------------------------------------------- services/scheduler.py
\* Worker threads start() can create.
MaxStarts == 2
Workers == 1..MaxStarts

\* EngineScheduler.__init__: the stop event clear and no thread (0).  pc is
\* each worker thread's place in _run_loop: "unborn" before Thread.start(),
\* "test" at the loop test, "tick" from the passed test to the return of
\* tick_callback, "sleep" from there to the next test, "dead" after the
\* loop.  joining: the controlling thread is inside stop(), at the join.
\* The other fields record what happened: the last step (op), the thread
\* that took it (by), whether the thread was alive when start() was last
\* called, the ticks each worker finished since the stop event was set,
\* whether it was sleeping when the event was set, whether it has caught an
\* exception of tick_callback, and the number of the tick whose snapshot the
\* UI thread handled last.
EngineScheduler ==
    [stop_event |-> FALSE, thread |-> 0,
     pc |-> [w \in Workers |-> "unborn"],
     joining |-> FALSE,
     op |-> "init", by |-> "main",
     alive_at_start |-> FALSE,
     after_stop |-> [w \in Workers |-> 0],
     asleep_at_stop |-> [w \in Workers |-> FALSE],
     caught |-> [w \in Workers |-> FALSE],
     delivered |-> 0]

\* threading.Thread.is_alive(); self._thread is None is thread 0.
is_alive(s, w) == w # 0 /\ s.pc[w] \notin {"unborn", "dead"}

\* The thread object start() constructs next.
NewThread(s) == CHOOSE w \in Workers :
    /\ s.pc[w] = "unborn"
    /\ \A v \in Workers : s.pc[v] = "unborn" => w <= v

\* start() that creates a thread whether or not one is alive
scheduler_start_unchecked(s) ==
    [s EXCEPT !.stop_event = FALSE,
              !.thread = NewThread(s),
              !.pc[NewThread(s)] = "test",
              !.after_stop = [w \in Workers |-> 0],
              !.asleep_at_stop = [w \in Workers |-> FALSE]]

\* EngineScheduler.start
scheduler_start(s) ==
    IF is_alive(s, s.thread) THEN s
    ELSE [s EXCEPT !.stop_event = FALSE,
                   !.thread = NewThread(s),
                   !.pc[NewThread(s)] = "test",
                   !.after_stop = [w \in Workers |-> 0],
                   !.asleep_at_stop = [w \in Workers |-> FALSE]]

\* EngineScheduler.stop up to the join: the event is set and, when there is
\* a thread, the caller waits for it.
scheduler_stop(s) ==
    [s EXCEPT !.stop_event = TRUE,
              !.joining = (s.thread # 0),
              !.asleep_at_stop =
                  IF s.stop_event THEN s.asleep_at_stop
                  ELSE [w \in Workers |-> s.pc[w] = "sleep"]]

\* a loop test that does not look at the stop event
loop_test_blind(s) == TRUE

\* _run_loop's test: while not self._stop_event.is_set()
loop_test(s) == ~s.stop_event

\* a loop that lets the exception of tick_callback end the thread
tick_returned_uncaught(s, w, raised) ==
    [s EXCEPT !.pc[w] = IF raised THEN "dead" ELSE "sleep",
              !.caught[w] = @ \/ raised,
              !.after_stop[w] = IF s.stop_event THEN @ + 1 ELSE @]

\* _run_loop from the return of tick_callback, or from the exception it
\* raised, which is caught and printed, to the wait on the stop event.
tick_returned(s, w, raised) ==
    [s EXCEPT !.pc[w] = "sleep",
              !.caught[w] = @ \/ raised,
              !.after_stop[w] = IF s.stop_event THEN @ + 1 ELSE @]

\* ------------------------------------------------------ monitor/app.py
\* a signal whose newest emission is handled first
data_emitted_newest_first(ch, data) == <<data>> \o ch

\* EngineWorker's ui_callback: data_emitted.emit(data) from the worker
\* thread queues the snapshot for update_ui on the UI thread.
data_emitted(ch, data) == Append(ch, data)

\* --------------------------------------------- utils/atomic_write.py
\* What the temp file holds before its content is complete.
EmptyFile == [kind |-> "empty"]
PartialFile == [kind |-> "partial"]

\* One call of atomic_write.  pc: "idle" before any call and after a call
\* that returned, "open" from mkstemp on, "partial" with some of the content
\* written, "written" with all of it written and the file closed, "raised"
\* after a call that raised.  target is the artefact written, content what
\* the caller writes, temp the temp file (MissingFile: there is none),
\* before the target as it was at the call.  op is the last step,
\* failed_at the place of the failure, seen what the last reader of the
\* target got (Unread: nobody read it during this call).
Unread == [kind |-> "unread"]
NoWrite ==
    [pc |-> "idle", target |-> "none", content |-> MissingFile,
     temp |-> MissingFile, before |-> MissingFile, op |-> "none",
     failed_at |-> "none", seen |-> Unread]

\* tempfile.mkstemp in the target's directory
mkstemp(files, which, content) ==
    [pc |-> "open", target |-> which, content |-> content,
     temp |-> EmptyFile, before |-> files[which], op |-> "mkstemp",
     failed_at |-> "none", seen |-> Unread]

\* a writer that opens the target itself
after_write_in_place(files, a, data, pc) ==
    [disk |-> [files EXCEPT ![a.target] = data],
     aw |-> [a EXCEPT !.pc = pc, !.op = "write"]]

\* The files and the call after the caller wrote through the file object
\* it was given, which is open on the temp file.
after_write(files, a, data, pc) ==
    [disk |-> files,
     aw |-> [a EXCEPT !.temp = data, !.pc = pc, !.op = "write"]]

\* os.replace(temp_path, path)
after_replace(files, a) ==
    [disk |-> [files EXCEPT ![a.target] = a.temp],
     aw |-> [a EXCEPT !.temp = MissingFile, !.pc = "idle", !.op = "replace"]]

\* an except clause that re-raises without removing the temp file
after_failure_keep_temp(a) ==
    [a EXCEPT !.pc = "raised", !.op = "raised", !.failed_at = a.pc]

\* except Exception: os.remove(temp_path); raise e
after_failure(a) ==
    [a EXCEPT !.temp = MissingFile, !.pc = "raised", !.op = "raised",
              !.failed_at = a.pc]

\* The scheduler not started, nothing emitted, nothing being written.
OutsideInit ==
    /\ sched = EngineScheduler
    /\ channel = <<>>
    /\ aw = NoWrite
    /\ frame = NoFrame

\* --------------------------------------------------------------- actions
\* The process starts: SentinelEngine.__init__ with the files as they are.
Start(files, nrestarts) ==
    LET e == SentinelEngine(files)
    IN /\ proc' = IF e.raised THEN "failed" ELSE "up"
       /\ disk' = files
       /\ window' = e.window
       /\ training_target' = e.training_target
       /\ training_buffer' = e.training_buffer
       /\ is_training' = e.is_training
       /\ model_short' = e.model_short
       /\ model_long' = e.model_long
       /\ risk' = e.risk
       /\ c_t' = e.c_t
       /\ ui' = None
       /\ last' = [op |-> "construct"]
       /\ restarts' = nrestarts
       /\ UNCHANGED ticks

Init ==
    \E files \in InitialDisks :
        LET e == SentinelEngine(files)
        IN /\ proc = IF e.raised THEN "failed" ELSE "up"
           /\ disk = files
           /\ window = e.window
           /\ training_target = e.training_target
           /\ training_buffer = e.training_buffer
           /\ is_training = e.is_training
           /\ model_short = e.model_short
           /\ model_long = e.model_long
           /\ risk = e.risk
           /\ c_t = e.c_t
           /\ ui = None
           /\ last = [op |-> "construct"]
           /\ ticks = 0
           /\ restarts = 0
           /\ OutsideInit

\* tick() while the smoothing window is still filling: x_t is None.
TickWarming(raw_metrics) ==
    LET sm == smoother_process(window, raw_metrics)
    IN /\ proc = "up" /\ ticks < MaxTicks
       /\ sm[2] = None
       /\ window' = sm[1]
       /\ ticks' = ticks + 1
       /\ last' = [op |-> "tick", mode |-> "warming"]
       /\ UNCHANGED <<proc, disk, training_target, training_buffer,
                      is_training, model_short, model_long, risk, c_t, ui,
                      restarts>>

\* The completion test off by one.
TrainingComplete_after(progress, target) == progress > target

\* progress >= self.training_target
TrainingComplete(progress, target) == progress >= target

\* tick() routed to _handle_training.
TickTraining(raw_metrics) ==
    LET sm == smoother_process(window, raw_metrics)
        x_t == sm[2]
        buffer == Append(training_buffer, x_t)
        progress == Len(buffer)
        complete == TrainingComplete(progress, training_target)
        short == initialize_from_batch(model_short, buffer)
        long == initialize_from_batch(model_long, buffer)
    IN /\ proc = "up" /\ ticks < MaxTicks
       /\ x_t # None
       /\ is_training
       /\ window' = sm[1]
       /\ IF complete
          THEN /\ model_short' = short
               /\ model_long' = long
               /\ disk' = save_all_state(disk, short, long, risk)
               /\ training_buffer' = <<>>
               /\ is_training' = FALSE
          ELSE /\ training_buffer' = buffer
               /\ UNCHANGED <<model_short, model_long, disk, is_training>>
       /\ ui' = [mode |-> "training", progress |-> progress,
                 target |-> training_target, metrics |-> raw_metrics]
       /\ ticks' = ticks + 1
       /\ last' = [op |-> "tick", mode |-> "training", x_t |-> x_t,
                   complete |-> complete]
       /\ UNCHANGED <<proc, training_target, risk, c_t, restarts>>

\* The status with the alert read off the stored risk.
snapshot_status_from_risk(is_anomaly, risk_val) ==
    IF risk_val > RISK_ALERT_THRESHOLD THEN "Anomaly"
    ELSE IF risk_val > 5 * Cent THEN "Elevated" ELSE "Normal"

\* "Anomaly" if is_anomaly else ("Elevated" if risk_val > 5.0 else "Normal")
snapshot_status(is_anomaly, risk_val) ==
    IF is_anomaly THEN "Anomaly"
    ELSE IF risk_val > 5 * Cent THEN "Elevated" ELSE "Normal"

\* a snap that takes the long model's mean only
drift_snap_mean_only(short, long) == [short EXCEPT !.mu = long.mu]

\* The short model after the drift branch: copies of the long model's
\* three arrays, everything else its own.
drift_snap(short, long) ==
    [short EXCEPT !.mu = long.mu, !.cov = long.cov, !.cov_inv = long.cov_inv]

\* tick() routed to _handle_monitoring.
TickMonitoring(raw_metrics) ==
    LET sm == smoother_process(window, raw_metrics)
        x_t == sm[2]
        severity == calculate_severity(x_t, model_long.mu, model_long.cov_inv,
                                       model_long.threshold)
        r == risk_update(risk, RISK_ALERT_THRESHOLD, severity)
        risk_val == r[1]
        is_anomaly == r[2]
        cu == update_cusum(c_t, CUSUM_K, CUSUM_THRESHOLD, severity)
        is_drift == cu[2]
        snapped == IF is_drift THEN drift_snap(model_short, model_long)
                   ELSE model_short
        divergence == calculate_divergence(snapped.mu, model_long.mu)
        gate_open == ~is_contaminated(severity, CONTAMINATION_LIMIT)
        short == IF gate_open
                 THEN model_update(snapped, x_t, severity, CONTAMINATION_LIMIT)
                 ELSE snapped
        long == IF gate_open
                THEN model_update(model_long, x_t, severity, CONTAMINATION_LIMIT)
                ELSE model_long
        status == snapshot_status(is_anomaly, risk_val)
    IN /\ proc = "up" /\ ticks < MaxTicks
       /\ x_t # None
       /\ ~is_training
       /\ window' = sm[1]
       /\ risk' = risk_val
       /\ c_t' = cu[1]
       /\ model_short' = short
       /\ model_long' = long
       /\ ui' = [mode |-> "monitoring", metrics |-> raw_metrics,
                 severity |-> severity, risk |-> risk_val, status |-> status,
                 divergence |-> divergence, is_frozen |-> long.is_frozen]
       /\ ticks' = ticks + 1
       /\ last' = [op |-> "tick", mode |-> "monitoring", x_t |-> x_t,
                   severity |-> severity, is_anomaly |-> is_anomaly,
                   is_drift |-> is_drift]
       /\ UNCHANGED <<proc, disk, training_target, training_buffer,
                      is_training, restarts>>

\* trigger_retraining with the CUSUM accumulator reset as well.
TriggerRetraining_resets_cusum(target_seconds) ==
    /\ proc = "up"
    /\ training_target' = target_seconds
    /\ training_buffer' = <<>>
    /\ model_short' = [model_short EXCEPT !.is_initialized = FALSE]
    /\ model_long' = [model_long EXCEPT !.is_initialized = FALSE]
    /\ risk' = 0
    /\ c_t' = 0
    /\ is_training' = TRUE
    /\ last' = [op |-> "trigger_retraining", target |-> target_seconds,
                was_training |-> is_training]
    /\ UNCHANGED <<proc, disk, window, ui, ticks, restarts>>

TriggerRetraining(target_seconds) ==
    /\ proc = "up"
    /\ training_target' = target_seconds
    /\ training_buffer' = <<>>
    /\ model_short' = [model_short EXCEPT !.is_initialized = FALSE]
    /\ model_long' = [model_long EXCEPT !.is_initialized = FALSE]
    /\ risk' = 0
    /\ is_training' = TRUE
    /\ last' = [op |-> "trigger_retraining", target |-> target_seconds,
                was_training |-> is_training]
    /\ UNCHANGED <<proc, disk, window, c_t, ui, ticks, restarts>>

\* shutdown() that persists in Training too.
Shutdown_always_saves ==
    /\ proc = "up"
    /\ disk' = save_all_state(disk, model_short, model_long, risk)
    /\ proc' = "down"
    /\ last' = [op |-> "shutdown", saved |-> TRUE]
    /\ UNCHANGED <<window, training_target, training_buffer, is_training,
                   model_short, model_long, risk, c_t, ui, ticks, restarts>>

\* shutdown() on application exit; the process ends after it.
Shutdown ==
    /\ proc = "up"
    /\ disk' = IF ~is_training
               THEN save_all_state(disk, model_short, model_long, risk)
               ELSE disk
    /\ proc' = "down"
    /\ last' = [op |-> "shutdown", saved |-> ~is_training]
    /\ UNCHANGED <<window, training_target, training_buffer, is_training,
                   model_short, model_long, risk, c_t, ui, ticks, restarts>>

\* The process is killed between two operations.
Kill ==
    /\ proc = "up"
    /\ proc' = "down"
    /\ last' = [op |-> "kill"]
    /\ UNCHANGED <<disk, window, training_target, training_buffer,
                   is_training, model_short, model_long, risk, c_t, ui, ticks,
                   restarts>>

\* The process is killed inside the tick that completes training, while
\* _save_all_state is between two of its writes; what the tick did to the
\* engine in memory dies with the process.
KillInSave(raw_metrics, written) ==
    LET sm == smoother_process(window, raw_metrics)
        x_t == sm[2]
        buffer == Append(training_buffer, x_t)
        short == initialize_from_batch(model_short, buffer)
        long == initialize_from_batch(model_long, buffer)
    IN /\ proc = "up" /\ ticks < MaxTicks
       /\ x_t # None
       /\ is_training
       /\ TrainingComplete(Len(buffer), training_target)
       /\ disk' = save_all_state_killed(disk, short, long, risk, written)
       /\ proc' = "down"
       /\ last' = [op |-> "kill", before |-> disk, written |-> written,
                   complete |-> save_all_state(disk, short, long, risk)]
       /\ UNCHANGED <<window, training_target, training_buffer, is_training,
                      model_short, model_long, risk, c_t, ui, ticks,
                      restarts>>

Restart ==
    /\ proc \in {"down", "failed"}
    /\ restarts < MaxRestarts
    /\ Start(disk, restarts + 1)

\* The engine's operations one after another, as one thread calls them.
Next ==
    \/ \E raw_metrics \in RawMetrics :
           TickWarming(raw_metrics) /\ UNCHANGED outside
    \/ \E raw_metrics \in RawMetrics :
           TickTraining(raw_metrics) /\ UNCHANGED outside
    \/ \E raw_metrics \in RawMetrics :
           TickMonitoring(raw_metrics) /\ UNCHANGED outside
    \/ \E target_seconds \in RetrainTargets :
           TriggerRetraining(target_seconds) /\ UNCHANGED outside
    \/ Shutdown /\ UNCHANGED outside
    \/ Kill /\ UNCHANGED outside
    \/ Restart /\ UNCHANGED outside

Spec == Init /\ [][Next]_vars

\* The engine restored from the earlier run's files, with the kill also
\* falling inside _save_all_state, between two of its three writes.
InitKill == Init /\ disk = PriorDisk

NextKill ==
    \/ Next
    \/ \E raw_metrics \in RawMetrics : \E written \in 0..2 :
           KillInSave(raw_metrics, written) /\ UNCHANGED outside

SpecKill == InitKill /\ [][NextKill]_vars


\* ------------------------------------------- start-up over any files
\* The process starts over files in any condition, ends and starts again.
InitLoad ==
    \E files \in AllDisks :
        LET e == SentinelEngine(files)
        IN /\ proc = IF e.raised THEN "failed" ELSE "up"
           /\ disk = files
           /\ window = e.window
           /\ training_target = e.training_target
           /\ training_buffer = e.training_buffer
           /\ is_training = e.is_training
           /\ model_short = e.model_short
           /\ model_long = e.model_long
           /\ risk = e.risk
           /\ c_t = e.c_t
           /\ ui = None
           /\ last = [op |-> "construct"]
           /\ ticks = 0
           /\ restarts = 0
           /\ OutsideInit

NextLoad ==
    \/ Shutdown /\ UNCHANGED outside
    \/ Kill /\ UNCHANGED outside
    \/ Restart /\ UNCHANGED outside

SpecLoad == InitLoad /\ [][NextLoad]_vars

\* ------------------------------------ one component driven on its own
\* The engine's other fields as __init__ sets them.
Constructed ==
    /\ proc = "up"
    /\ disk = EmptyDisk
    /\ window = FreshEngine.window
    /\ training_target = FreshEngine.training_target
    /\ training_buffer = FreshEngine.training_buffer
    /\ is_training = FreshEngine.is_training
    /\ ui = None
    /\ last = [op |-> "construct"]
    /\ ticks = 0
    /\ restarts = 0
    /\ OutsideInit

\* StatisticalModel: initialize_from_batch and update called with any
\* arguments, on a model just created or restored from the earlier run.
ModelVectors == {<<0, 0>>, <<1200, 0>>, <<6000, 0>>}
ModelSeverities == {79, 80}
ModelLimits == {CONTAMINATION_LIMIT}
ModelBatches == [1..2 -> ModelVectors]

Model(which) == IF which = "short" THEN model_short ELSE model_long

InitModel ==
    /\ Constructed
    /\ model_short \in {FreshEngine.model_short,
                        SentinelEngine(PriorDisk).model_short}
    /\ model_long \in {FreshEngine.model_long,
                       SentinelEngine(PriorDisk).model_long}
    /\ risk = 0
    /\ c_t = 0

ModelInitialize(which, data) ==
    LET after == initialize_from_batch(Model(which), data)
    IN /\ ticks < MaxCalls
       /\ model_short' = IF which = "short" THEN after ELSE model_short
       /\ model_long' = IF which = "long" THEN after ELSE model_long
       /\ last' = [op |-> "initialize_from_batch", which |-> which,
                   data |-> data]
       /\ ticks' = ticks + 1
       /\ UNCHANGED <<proc, disk, window, training_target, training_buffer,
                      is_training, risk, c_t, ui, restarts>>

ModelUpdate(which, x_t, severity, severity_limit) ==
    LET after == model_update(Model(which), x_t, severity, severity_limit)
    IN /\ ticks < MaxCalls
       /\ model_short' = IF which = "short" THEN after ELSE model_short
       /\ model_long' = IF which = "long" THEN after ELSE model_long
       /\ last' = [op |-> "update", which |-> which, before |-> Model(which),
                   x_t |-> x_t, severity |-> severity,
                   severity_limit |-> severity_limit]
       /\ ticks' = ticks + 1
       /\ UNCHANGED <<proc, disk, window, training_target, training_buffer,
                      is_training, risk, c_t, ui, restarts>>

NextModel ==
    \/ \E which \in {"short", "long"} : \E data \in ModelBatches :
           ModelInitialize(which, data) /\ UNCHANGED outside
    \/ \E which \in {"short", "long"} : \E x_t \in ModelVectors :
       \E severity \in ModelSeverities : \E severity_limit \in ModelLimits :
           ModelUpdate(which, x_t, severity, severity_limit)
               /\ UNCHANGED outside

SpecModel == InitModel /\ [][NextModel]_vars

\* RiskAccumulator.update called with any severity.
RiskSeverities == {0, 100, 150, 300, 500}

InitRisk ==
    /\ Constructed
    /\ model_short = FreshEngine.model_short
    /\ model_long = FreshEngine.model_long
    /\ risk = FreshEngine.risk
    /\ c_t = 0

RiskUpdate(severity) ==
    LET r == risk_update(risk, RISK_ALERT_THRESHOLD, severity)
    IN /\ ticks < MaxCalls
       /\ risk' = r[1]
       /\ last' = [op |-> "risk_update", before |-> risk,
                   severity |-> severity, returned |-> r[1],
                   is_anomaly |-> r[2]]
       /\ ticks' = ticks + 1
       /\ UNCHANGED <<proc, disk, window, training_target, training_buffer,
                      is_training, model_short, model_long, c_t, ui, restarts>>

NextRisk ==
    (\E severity \in RiskSeverities : RiskUpdate(severity)) /\ UNCHANGED outside

SpecRisk == InitRisk /\ [][NextRisk]_vars

\* DriftDetector.update_cusum called with any severity.
CusumSeverities == {0, 5, 100, 505, 1005, 1200}

InitCusum ==
    /\ Constructed
    /\ model_short = FreshEngine.model_short
    /\ model_long = FreshEngine.model_long
    /\ risk = 0
    /\ c_t = FreshEngine.c_t

CusumUpdate(severity) ==
    LET cu == update_cusum(c_t, CUSUM_K, CUSUM_THRESHOLD, severity)
    IN /\ ticks < MaxCalls
       /\ c_t' = cu[1]
       /\ last' = [op |-> "update_cusum", before |-> c_t,
                   severity |-> severity, is_drift |-> cu[2]]
       /\ ticks' = ticks + 1
       /\ UNCHANGED <<proc, disk, window, training_target, training_buffer,
                      is_training, model_short, model_long, risk, ui, restarts>>

NextCusum ==
    (\E severity \in CusumSeverities : CusumUpdate(severity))
        /\ UNCHANGED outside

SpecCusum == InitCusum /\ [][NextCusum]_vars

\* ----------------------------- the engine under its scheduler and the UI
\* The engine's own state.
inside == <<proc, disk, window, training_target, training_buffer, is_training,
            model_short, model_long, risk, c_t, ui, last, ticks, restarts>>

\* Ticks the workers run, and the readings they collect: the scheduler
\* does not look at what a tick computes.
MaxSchedTicks == 7
SchedMetrics == {m \in RawMetrics : m.disk_read_rate = 0}

\* The application comes up over the files of an earlier run, the
\* scheduler not yet started.
InitSched == Init /\ disk = PriorDisk

\* The step sched takes, with the thread that took it.
Step(s, op, by) == [s EXCEPT !.op = op, !.by = by]

\* EngineWorker.run, or any caller: scheduler.start().
SchedulerStart ==
    /\ ~sched.joining
    /\ \E w \in Workers : sched.pc[w] = "unborn"
    /\ sched' = [Step(scheduler_start(sched), "start", "controller")
                    EXCEPT !.alive_at_start = is_alive(sched, sched.thread)]
    /\ UNCHANGED <<inside, channel, aw, frame>>

\* scheduler.stop() as far as the join.
SchedulerStop ==
    /\ ~sched.joining
    /\ sched' = Step(scheduler_stop(sched), "stop", "controller")
    /\ UNCHANGED <<inside, channel, aw, frame>>

\* join(timeout=2.0) returns: the thread ended or the two seconds passed.
SchedulerJoined ==
    /\ sched.joining
    /\ sched' = Step([sched EXCEPT !.joining = FALSE], "joined", "controller")
    /\ UNCHANGED <<inside, channel, aw, frame>>

\* The worker at the loop test.
LoopTest(w) ==
    /\ sched.pc[w] = "test"
    /\ sched' = Step([sched EXCEPT !.pc[w] = IF loop_test(sched) THEN "tick"
                                             ELSE "dead"],
                     "loop_test", "worker")
    /\ UNCHANGED <<inside, channel, aw, frame>>

\* tick_callback returns from a tick that has no smoothed vector yet.
WorkerTickWarming(w, raw_metrics) ==
    /\ sched.pc[w] = "tick" /\ ticks < MaxSchedTicks
    /\ TickWarming(raw_metrics)
    /\ sched' = Step(tick_returned(sched, w, FALSE), "tick", "worker")
    /\ UNCHANGED <<channel, aw, frame>>

\* tick_callback returns from a training tick; its snapshot was emitted.
WorkerTickTraining(w, raw_metrics) ==
    /\ sched.pc[w] = "tick" /\ ticks < MaxSchedTicks
    /\ TickTraining(raw_metrics)
    /\ sched' = Step(tick_returned(sched, w, FALSE), "tick", "worker")
    /\ channel' = data_emitted(channel, ticks + 1)
    /\ UNCHANGED <<aw, frame>>

\* tick_callback returns from a monitoring tick; its snapshot was emitted.
WorkerTickMonitoring(w, raw_metrics) ==
    /\ sched.pc[w] = "tick" /\ ticks < MaxSchedTicks
    /\ TickMonitoring(raw_metrics)
    /\ sched' = Step(tick_returned(sched, w, FALSE), "tick", "worker")
    /\ channel' = data_emitted(channel, ticks + 1)
    /\ UNCHANGED <<aw, frame>>

\* tick_callback raises after the smoother has taken a sample.
WorkerTickRaised_after_smoothing(w) ==
    /\ sched.pc[w] = "tick"
    /\ sched' = Step(tick_returned(sched, w, TRUE), "tick_raised", "worker")
    /\ window' = window_append(window, ZeroVector)
    /\ UNCHANGED <<proc, disk, training_target, training_buffer, is_training,
                   model_short, model_long, risk, c_t, ui, last, ticks,
                   restarts, channel, aw, frame>>

\* tick_callback raises: collector.collect() fails before the engine wrote
\* anything.
WorkerTickRaised(w) ==
    /\ sched.pc[w] = "tick"
    /\ sched' = Step(tick_returned(sched, w, TRUE), "tick_raised", "worker")
    /\ UNCHANGED <<inside, channel, aw, frame>>

\* The wait on the stop event ends: the interval passed or the event is
\* set.
WorkerWait(w) ==
    /\ sched.pc[w] = "sleep"
    /\ sched' = Step([sched EXCEPT !.pc[w] = "test"], "wait", "worker")
    /\ UNCHANGED <<inside, channel, aw, frame>>

\* start_custom_retraining on the UI thread calls the engine directly.
UiRetrain(target_seconds) ==
    /\ TriggerRetraining(target_seconds)
    /\ sched' = Step(sched, "trigger_retraining", "ui")
    /\ UNCHANGED <<channel, aw, frame>>

\* The UI thread's event loop hands the oldest queued snapshot to update_ui.
UiDeliver ==
    /\ channel # <<>>
    /\ sched' = Step([sched EXCEPT !.delivered = Head(channel)],
                     "update_ui", "ui")
    /\ channel' = Tail(channel)
    /\ UNCHANGED <<inside, aw, frame>>

NextSched ==
    \/ SchedulerStart
    \/ SchedulerStop
    \/ SchedulerJoined
    \/ \E w \in Workers : LoopTest(w)
    \/ \E w \in Workers : \E raw_metrics \in SchedMetrics :
           WorkerTickWarming(w, raw_metrics)
    \/ \E w \in Workers : \E raw_metrics \in SchedMetrics :
           WorkerTickTraining(w, raw_metrics)
    \/ \E w \in Workers : \E raw_metrics \in SchedMetrics :
           WorkerTickMonitoring(w, raw_metrics)
    \/ \E w \in Workers : WorkerTickRaised(w)
    \/ \E w \in Workers : WorkerWait(w)
    \/ \E target_seconds \in RetrainTargets : UiRetrain(target_seconds)
    \/ UiDeliver

SpecSched == InitSched /\ [][NextSched]_vars

\* ----------------------------------------- atomic_write step by step
\* What save_model and save_state write to an artefact.
WriteContents(which) ==
    IF which = "state"
    THEN {save_state([threshold |-> PriorThreshold, risk |-> r]) :
              r \in {PriorRisk, Cent}}
    ELSE {save_model(MissingFile, m.mu, m.cov, m.cov_inv) :
              m \in {PriorShort, PriorLong}}

\* The engine's state apart from the files.
memory == <<proc, window, training_target, training_buffer, is_training,
            model_short, model_long, risk, c_t, ui, last, ticks, restarts>>

\* atomic_write is entered: the temp file is created, empty.
AwEnter(which, content) ==
    /\ aw.pc \in {"idle", "raised"}
    /\ aw' = mkstemp(disk, which, content)
    /\ UNCHANGED <<disk, memory, sched, channel, frame>>

\* The caller writes a first part of the content.
AwWriteSome ==
    /\ aw.pc = "open"
    /\ LET after == after_write(disk, aw, PartialFile, "partial")
       IN disk' = after.disk /\ aw' = after.aw
    /\ UNCHANGED <<memory, sched, channel, frame>>

\* The caller writes the rest and the with block closes the file.
AwWriteRest ==
    /\ aw.pc = "partial"
    /\ LET after == after_write(disk, aw, aw.content, "written")
       IN disk' = after.disk /\ aw' = after.aw
    /\ UNCHANGED <<memory, sched, channel, frame>>

\* The rename over the target; atomic_write returns.
AwReplace ==
    /\ aw.pc = "written"
    /\ LET after == after_replace(disk, aw)
       IN disk' = after.disk /\ aw' = after.aw
    /\ UNCHANGED <<memory, sched, channel, frame>>

\* An exception: of the caller's writing, or of os.replace.
AwFail ==
    /\ aw.pc \in {"open", "partial", "written"}
    /\ aw' = after_failure(aw)
    /\ UNCHANGED <<disk, memory, sched, channel, frame>>

\* Some reader opens the target path and reads it to the end.
ReadTarget ==
    /\ aw.target # "none"
    /\ aw' = [aw EXCEPT !.seen = disk[aw.target], !.op = "read"]
    /\ UNCHANGED <<disk, memory, sched, channel, frame>>

NextWrite ==
    \/ \E which \in {"short", "long", "state"} :
       \E content \in WriteContents(which) : AwEnter(which, content)
    \/ AwWriteSome
    \/ AwWriteRest
    \/ AwReplace
    \/ AwFail
    \/ ReadTarget

SpecWrite == Init /\ [][NextWrite]_vars

\* safe_invert called with any covariance: well conditioned, needing a
\* larger epsilon, and beyond what the largest epsilon repairs.
InvertVariances == {0, 1, 50, 500, 5000, 50000, 955000, 2000000}
InvertCovariances ==
    {Diag(a, b) : a \in InvertVariances, b \in {0, 1, 500, 2000000}}

InitInvert == InitCusum

InvertCall(cov) ==
    /\ ticks < MaxCalls
    /\ last' = [op |-> "safe_invert", cov |-> cov, returned |-> safe_invert(cov)]
    /\ ticks' = ticks + 1
    /\ UNCHANGED <<proc, disk, window, training_target, training_buffer,
                   is_training, model_short, model_long, risk, c_t, ui,
                   restarts>>

NextInvert ==
    (\E cov \in InvertCovariances : InvertCall(cov)) /\ UNCHANGED outside

SpecInvert == InitInvert /\ [][NextInvert]_vars

\* ------------------------------------ a steady input after a restart
\* The disk rates a steady load can have.
MaxOffset == 15
OffsetRates == {600 * r : r \in 0..MaxOffset}
OffsetMetrics == [disk_read_rate : OffsetRates, cpu_temperature : {0}]

\* The reading is the one before it, or the first of the process.
Steady(raw_metrics) ==
    IF window = <<>> THEN TRUE
    ELSE build_feature_vector(raw_metrics) = window[Len(window)]

\* The engine restored from the files of an earlier run.
InitDrift == Init /\ disk = PriorDisk

NextDrift ==
    \/ \E raw_metrics \in OffsetMetrics :
           Steady(raw_metrics) /\ TickWarming(raw_metrics)
               /\ UNCHANGED outside
    \/ \E raw_metrics \in OffsetMetrics :
           Steady(raw_metrics) /\ TickMonitoring(raw_metrics)
               /\ UNCHANGED outside

SpecDrift == InitDrift /\ [][NextDrift]_vars

\* ------------------------------------------------------------ properties
\* The step is one call of tick() (in Spec) or of the component's method.
Called == ticks' = ticks + 1

Persisted(files, short, long, risk_now) ==
    /\ files.short = ArchiveFile(short.mu, short.cov, short.cov_inv)
    /\ files.long = ArchiveFile(long.mu, long.cov, long.cov_inv)
    /\ files.state = JsonObject([threshold |-> long.threshold,
                                 risk |-> risk_now])

\* floor(sum / n) = m
IsMeanOf(m, column) ==
    /\ Len(column) * m <= SumSeq(column)
    /\ SumSeq(column) < Len(column) * (m + 1)

\* C1: in Training a tick with a smoothed vector appends that one vector
\* and stays in Training while the buffer is shorter than training_target;
\* on the tick where the length reaches training_target both models are
\* initialised from the same batch, the state is persisted, the buffer is
\* cleared and the mode is Monitoring; a smoothed tick outside Training is
\* handled as a monitoring tick.
C1_TrainingToMonitoring ==
    [][(Called /\ last'.mode # "warming") =>
        IF is_training
        THEN /\ last'.mode = "training"
             /\ LET batch == Append(training_buffer, last'.x_t)
                IN IF Len(batch) < training_target
                   THEN /\ training_buffer' = batch
                        /\ is_training'
                        /\ UNCHANGED <<model_short, model_long, disk>>
                   ELSE /\ model_short'.is_initialized
                        /\ model_long'.is_initialized
                        /\ \A i \in Idx :
                              IsMeanOf(model_long'.mu[i],
                                       [n \in 1..Len(batch) |-> batch[n][i]])
                        /\ model_short' =
                              [model_long' EXCEPT !.lambda_factor = LAMBDA_SHORT]
                        /\ Persisted(disk', model_short', model_long', risk')
                        /\ training_buffer' = <<>>
                        /\ ~is_training'
        ELSE last'.mode = "monitoring"]_vars

\* A training run has just completed and handed over to Monitoring.
C1_Witness ==
    /\ last.op = "tick" /\ last.mode = "training" /\ last.complete
    /\ ~is_training
    /\ training_buffer = <<>>
    /\ model_long.is_initialized

\* C2: construction ends in Monitoring, with both models initialised and
\* threshold and risk restored, exactly when both archives load and the
\* state file holds a threshold; in every other case it ends in Training
\* with both models uninitialised and an empty training buffer.
C2_LoadIffComplete ==
    last.op = "construct" =>
        IF /\ load_model(disk.short) # None
           /\ load_model(disk.long) # None
           /\ disk.state.kind = "object"
           /\ "threshold" \in DOMAIN disk.state.fields
        THEN /\ proc = "up"
             /\ ~is_training
             /\ model_short.is_initialized /\ model_long.is_initialized
             /\ model_short.threshold = disk.state.fields["threshold"]
             /\ model_long.threshold = disk.state.fields["threshold"]
             /\ risk = IF "risk" \in DOMAIN disk.state.fields
                       THEN disk.state.fields["risk"] ELSE 0
        ELSE /\ proc = "up"
             /\ is_training
             /\ ~model_short.is_initialized /\ ~model_long.is_initialized
             /\ training_buffer = <<>>

\* C3: trigger_retraining(n) leaves the engine in Training with an empty
\* buffer, training_target = n, both models marked uninitialised and
\* risk = 0, and changes nothing else.
C3_RetrainFrame ==
    [][last'.op = "trigger_retraining" =>
        /\ is_training'
        /\ training_buffer' = <<>>
        /\ training_target' = last'.target
        /\ ~model_short'.is_initialized
        /\ ~model_long'.is_initialized
        /\ risk' = 0
        /\ model_short' = [model_short EXCEPT !.is_initialized = FALSE]
        /\ model_long' = [model_long EXCEPT !.is_initialized = FALSE]
        /\ UNCHANGED <<c_t, window, disk, ui, proc>>]_vars

\* Retraining was asked for in Monitoring, with trained models, a filled
\* window and a CUSUM accumulator above 0.
C3_Witness ==
    /\ last.op = "trigger_retraining" /\ ~last.was_training
    /\ model_long.mu # None
    /\ c_t > 0
    /\ Len(window) = window_size

\* C4: update is a no-op when the model is not initialised, or is frozen,
\* or severity >= severity_limit.
C4_UpdateNoOp ==
    [][(Called /\ last'.op = "update") =>
        LET m == Model(last'.which)
        IN (\/ ~m.is_initialized
            \/ m.is_frozen
            \/ last'.severity >= last'.severity_limit)
           => UNCHANGED <<model_short, model_long>>]_vars

\* update was called on an initialised, unfrozen model with a severity at
\* the limit.
C4_Witness ==
    /\ last.op = "update"
    /\ last.before.is_initialized /\ ~last.before.is_frozen
    /\ last.severity >= last.severity_limit
    /\ last.x_t # last.before.mu

FrozenTuple(m) == <<m.mu, m.cov, m.cov_inv>>

\* C5: once a model is frozen, no engine operation other than the
\* completion of a retraining changes its (mu, cov, cov_inv); this holds
\* for the short and for the long model.
C5_FrozenImmutable ==
    [][(/\ last'.op # "construct"
        /\ ~(last'.op = "tick" /\ last'.mode = "training"))
       => /\ model_short.is_frozen =>
                FrozenTuple(model_short') = FrozenTuple(model_short)
          /\ model_long.is_frozen =>
                FrozenTuple(model_long') = FrozenTuple(model_long)]_vars

\* (1 - lambda) a + lambda b, rounded down.
Lerp(a, b, lambda_factor) ==
    ((LambdaDen - lambda_factor) * a + lambda_factor * b) \div LambdaDen

\* C6: an update that passes its gate computes the new covariance from
\* the mean before the call, then the new mean, then the inverse; if the
\* inversion reports instability it sets is_frozen and leaves
\* (mu, cov, cov_inv) as they were, otherwise it replaces the three
\* together; the threshold is the same in both cases.
C6_UpdateCommitOrFreeze ==
    [][(Called /\ last'.op = "update") =>
        LET m == Model(last'.which)
            n == IF last'.which = "short" THEN model_short' ELSE model_long'
            x == last'.x_t
            new_cov == [i \in Idx |-> [j \in Idx |->
                          Lerp(m.cov[i][j],
                               (x[i] - m.mu[i]) * (x[j] - m.mu[j]),
                               m.lambda_factor)]]
            new_mu == [i \in Idx |-> Lerp(m.mu[i], x[i], m.lambda_factor)]
        IN (/\ m.is_initialized /\ ~m.is_frozen
            /\ last'.severity < last'.severity_limit)
           => /\ n.threshold = m.threshold
              /\ IF safe_invert(new_cov)[2]
                 THEN n = [m EXCEPT !.is_frozen = TRUE]
                 ELSE n = [m EXCEPT !.cov = new_cov, !.mu = new_mu,
                                    !.cov_inv = safe_invert(new_cov)[1]]]_vars

\* An update passed its gate and froze the model without touching it.
C6_Witness ==
    /\ last.op = "update"
    /\ last.before.is_initialized /\ ~last.before.is_frozen
    /\ last.severity < last.severity_limit
    /\ Model(last.which) = [last.before EXCEPT !.is_frozen = TRUE]

\* C7: after initialize_from_batch on any batch, is_initialized is true and
\* the threshold is strictly positive.
C7_ThresholdPositive ==
    (last.op = "tick" /\ last.mode = "training" /\ last.complete) =>
        /\ model_short.is_initialized /\ model_short.threshold > 0
        /\ model_long.is_initialized /\ model_long.threshold > 0

\* C8: with risk R and severity s, the intermediate value is
\* R + 4 (s - 1)^2 if s > 1 and 0.95 R otherwise; alert is true exactly
\* when the intermediate value exceeds the alert threshold; the stored and
\* returned risk is half the intermediate value on an alert and the
\* intermediate value otherwise.  Severity 3 from risk 0 returns 16 without
\* alert, then 16 with alert.
C8_RiskUpdate ==
    [][(Called /\ last'.op = "risk_update") =>
        LET s == last'.severity
            intermediate ==
                IF s > Cent
                THEN risk + (4 * (s - Cent) * (s - Cent)) \div Cent
                ELSE (95 * risk) \div 100
        IN /\ last'.is_anomaly = (intermediate > RISK_ALERT_THRESHOLD)
           /\ risk' = IF last'.is_anomaly THEN intermediate \div 2
                      ELSE intermediate
           /\ last'.returned = risk'
           /\ (risk = 0 /\ s = 3 * Cent) =>
                 (risk' = 16 * Cent /\ ~last'.is_anomaly)
           /\ (risk = 16 * Cent /\ s = 3 * Cent) =>
                 (risk' = 16 * Cent /\ last'.is_anomaly)]_vars

\* The second of two updates with severity 3 from risk 0: alert, risk 16.
C8_Witness ==
    /\ last.op = "risk_update"
    /\ last.before = 16 * Cent /\ last.severity = 3 * Cent
    /\ last.is_anomaly
    /\ risk = 16 * Cent

\* C9: if an update returns alert, the update right after it with a
\* severity <= 1 returns no alert.
C9_Hysteresis ==
    [][(/\ last.op = "risk_update" /\ last.is_anomaly
        /\ Called /\ last'.op = "risk_update"
        /\ last'.severity <= Cent)
       => ~last'.is_anomaly]_vars

\* C10: update_cusum sets c to max(0, c + (s - k)), reports drift exactly
\* when that value exceeds H and then resets c to 0; after every call
\* 0 <= c <= H.
C10_Cusum ==
    [][(Called /\ last'.op = "update_cusum") =>
        LET v == Max(0, c_t + (last'.severity - CUSUM_K))
        IN /\ last'.is_drift = (v > CUSUM_THRESHOLD)
           /\ c_t' = IF v > CUSUM_THRESHOLD THEN 0 ELSE v
           /\ 0 <= c_t' /\ c_t' <= CUSUM_THRESHOLD]_vars

\* A call found the accumulator above 0, reported drift and reset it.
C10_Witness ==
    /\ last.op = "update_cusum"
    /\ last.before > 0
    /\ last.is_drift
    /\ c_t = 0

\* C11: in a monitoring snapshot the status is Anomaly exactly when the
\* risk accumulator raised the alert on that tick, Elevated exactly when
\* there is no alert and 5 < risk <= R*, Normal exactly when there is no
\* alert and risk <= 5; a snapshot that is not Anomaly never reports a
\* risk above R*.
C11_SnapshotStatus ==
    [][(Called /\ last'.mode = "monitoring") =>
        LET alert == last'.is_anomaly
            shown == ui'.risk
        IN /\ (ui'.status = "Anomaly") = alert
           /\ (ui'.status = "Elevated") =
                 (~alert /\ 5 * Cent < shown /\ shown <= RISK_ALERT_THRESHOLD)
           /\ (ui'.status = "Normal") = (~alert /\ shown <= 5 * Cent)
           /\ ui'.status # "Anomaly" => shown <= RISK_ALERT_THRESHOLD]_vars

\* The last tick raised the alert and its snapshot, with the halved risk
\* under R*, says Anomaly.
C11_Witness ==
    /\ last.op = "tick" /\ last.mode = "monitoring" /\ last.is_anomaly
    /\ ui.mode = "monitoring" /\ ui.status = "Anomaly"
    /\ ui.risk > 5 * Cent /\ ui.risk <= RISK_ALERT_THRESHOLD

\* C12: the monitoring snapshot of a tick shows the state at the end of
\* that tick: its risk is the accumulator's risk, its is_frozen the long
\* model's flag and its divergence the distance between the two means as
\* the tick leaves them.
C12_SnapshotPostUpdate ==
    (last.op = "tick" /\ last.mode = "monitoring") =>
        /\ ui.risk = risk
        /\ ui.is_frozen = model_long.is_frozen
        /\ ui.divergence * ui.divergence =
              SumSeq([i \in Idx |->
                  (model_short.mu[i] - model_long.mu[i])
                      * (model_short.mu[i] - model_long.mu[i])])

\* The tick numbers in a channel grow from its head to its end.
Increasing(ch) == \A i, j \in 1..Len(ch) : i < j => ch[i] < ch[j]

\* C13: a tick that has a smoothed vector and returns without an exception
\* emits exactly one snapshot, in the step in which the tick ends, and no
\* other step emits; the snapshots wait in the order of their ticks and
\* reach the UI thread in that order; no two ticks are in progress at once.
C13_SnapshotOrder ==
    [][/\ (Called /\ last'.mode # "warming") =>
              /\ channel' = Append(channel, ticks')
              /\ \E w \in Workers :
                     sched.pc[w] = "tick" /\ sched'.pc[w] = "sleep"
       /\ ~(Called /\ last'.mode # "warming") =>
              (channel' = channel \/ channel' = Tail(channel))
       /\ Increasing(channel')
       /\ channel' # <<>> => sched'.delivered < Head(channel')
       /\ sched'.delivered >= sched.delivered
       /\ Cardinality({w \in Workers : sched'.pc[w] = "tick"}) <= 1]_vars

\* The UI thread has handled one snapshot while two later ones wait.
C13_Witness ==
    /\ sched.delivered > 0
    /\ Len(channel) >= 2

\* The engine state the workers' ticks write.
EngineState == <<is_training, training_buffer, training_target,
                 model_short, model_long, risk, c_t>>

\* C14: one writer: a step that changes the mode flag, the training buffer,
\* the training target, a model, the risk or the CUSUM sum is a step of the
\* worker thread, or at least one taken while no worker thread is alive.
C14_SingleWriter ==
    [][EngineState' # EngineState =>
           \/ sched'.by = "worker"
           \/ \A w \in Workers : ~is_alive(sched, w)]_vars

\* C15: start() called while the worker thread is alive leaves the stop
\* event, the thread and every worker's place in its loop as they were, and
\* whatever start() and stop() calls the controlling thread makes, at most
\* one worker thread is alive.
C15_StartIdempotent ==
    [][/\ (sched'.op = "start" /\ is_alive(sched, sched.thread)) =>
              /\ sched'.stop_event = sched.stop_event
              /\ sched'.thread = sched.thread
              /\ sched'.pc = sched.pc
       /\ Cardinality({w \in Workers : is_alive(sched', w)}) <= 1]_vars

\* start() was just called while the worker, told to stop and not yet
\* joined in time, was still inside a tick.
C15_Witness ==
    /\ sched.op = "start" /\ sched.alive_at_start
    /\ sched.stop_event
    /\ sched.thread # 0 /\ sched.pc[sched.thread] = "tick"

\* C16: an exception of the tick callback leaves the worker alive, at the
\* wait before its next loop test; a worker ends only at a loop test that
\* finds the stop event set, and a loop test that finds it clear begins the
\* next tick.
C16_TickExceptionCaught ==
    [][\A w \in Workers :
          /\ (sched'.op = "tick_raised" /\ sched.pc[w] = "tick") =>
                 sched'.pc[w] = "sleep"
          /\ (sched.pc[w] = "sleep" /\ sched'.pc[w] # "sleep") =>
                 sched'.pc[w] = "test"
          /\ (sched.pc[w] = "test" /\ sched'.pc[w] # "test") =>
                 sched'.pc[w] = IF sched.stop_event THEN "dead" ELSE "tick"
          /\ (sched.pc[w] # "dead" /\ sched'.pc[w] = "dead") =>
                 sched.pc[w] = "test"]_vars

\* A worker that caught an exception of an earlier tick has just finished
\* a later tick that emitted a snapshot, the stop event clear.
C16_Witness ==
    \E w \in Workers :
        /\ sched.caught[w] /\ sched.thread = w
        /\ sched.op = "tick" /\ sched.pc[w] = "sleep"
        /\ ~sched.stop_event /\ ui # None

\* C17: stop() sets the stop event and moves no worker and no engine state,
\* so a tick in progress runs to its end; a worker that was sleeping when
\* the event was set runs no further tick; and no worker finishes more than
\* one tick after the event was set.
C17_CooperativeStop ==
    [][/\ sched'.op = "stop" =>
              /\ sched'.stop_event
              /\ sched'.pc = sched.pc
              /\ inside' = inside
       /\ \A w \in Workers :
              /\ sched'.after_stop[w] <= 1
              /\ (sched'.stop_event /\ sched'.asleep_at_stop[w]) =>
                     /\ sched'.after_stop[w] = 0
                     /\ sched'.pc[w] \in {"sleep", "test", "dead"}]_vars

\* A worker that was inside a tick when stop() was called has finished
\* that tick and then ended at its loop test.
C17_Witness ==
    \E w \in Workers :
        /\ sched.stop_event /\ ~sched.asleep_at_stop[w]
        /\ sched.after_stop[w] = 1
        /\ sched.pc[w] = "dead"

\* C18: whatever step an atomic_write has reached, and after a failure at
\* any of them, the target holds, and a reader of it gets, the complete
\* content it had before the call or the complete new content; the files
\* change in one step only, the rename, which puts the new content in the
\* target.
C18_AtomicWrite ==
    [][/\ aw'.target # "none" =>
              /\ disk'[aw'.target] \in {aw'.before, aw'.content}
              /\ aw'.seen # Unread => aw'.seen \in {aw'.before, aw'.content}
       /\ disk' # disk =>
              /\ aw.pc = "written" /\ aw'.op = "replace"
              /\ disk' = [disk EXCEPT ![aw.target] = aw.content]]_vars

\* After a failure between the write and the rename a reader got the
\* earlier archive or state file, which differs from what was being
\* written.
C18_Witness ==
    /\ aw.pc = "raised" /\ aw.failed_at = "written"
    /\ aw.op = "read" /\ aw.seen = aw.before
    /\ aw.before.kind \in {"archive", "object"}
    /\ aw.before # aw.content

\* C19: when the writing or the rename fails, the call ends by raising,
\* with the temp file removed and the files as they were; from then until
\* the next call no temp file exists and the target is what it was before
\* the failed call.
C19_WriteFailure ==
    [][/\ (aw.pc \in {"open", "partial", "written"} /\ aw'.op = "raised") =>
              /\ aw'.pc = "raised"
              /\ aw'.temp = MissingFile
              /\ disk' = disk
       /\ aw'.pc = "raised" =>
              /\ aw'.temp = MissingFile
              /\ disk'[aw'.target] = aw'.before]_vars

\* The writing failed part-way, over a target that existed: the call has
\* raised and left no temp file.
C19_Witness ==
    /\ aw.pc = "raised" /\ aw.op = "raised"
    /\ aw.failed_at = "partial"
    /\ aw.before.kind \in {"archive", "object"}
    /\ aw.temp = MissingFile

\* C20: whatever the three files are at start-up, the constructor does not
\* raise, and when an archive is missing or not an archive, or the state
\* file is missing, not text, not JSON, or JSON that is not an object with
\* a threshold, the engine is in Training when construction ends.
C20_LoadNeverRaises ==
    last.op = "construct" =>
        /\ proc # "failed"
        /\ (\/ disk.short.kind # "archive"
            \/ disk.long.kind # "archive"
            \/ disk.state.kind # "object"
            \/ "threshold" \notin DOMAIN disk.state.fields)
               => (proc = "up" /\ is_training)

\* C21: a tick in which the collector raises leaves the risk, the CUSUM
\* sum, both models, the mode, the training buffer and the smoothing window
\* as they were and emits no snapshot; the worker goes on to its wait, and
\* at its next loop test, the stop event clear, begins the next tick.
C21_CollectorFailure ==
    [][/\ sched'.op = "tick_raised" =>
              /\ <<risk, c_t, model_short, model_long, is_training,
                   training_buffer, window>>'
                     = <<risk, c_t, model_short, model_long, is_training,
                         training_buffer, window>>
              /\ channel' = channel /\ ui' = ui
              /\ \A w \in Workers :
                     sched.pc[w] = "tick" => sched'.pc[w] = "sleep"
       /\ \A w \in Workers :
              (/\ sched.caught[w] /\ sched.pc[w] = "test"
               /\ ~sched.stop_event /\ sched'.pc[w] # "test")
                  => sched'.pc[w] = "tick"]_vars

\* A worker whose collector raised in an earlier tick has finished a later
\* monitoring tick.
C21_Witness ==
    \E w \in Workers :
        /\ sched.caught[w]
        /\ sched.by = "worker" /\ sched.op = "tick"
        /\ last.op = "tick" /\ last.mode = "monitoring"

\* The files hold what one _save_all_state wrote.
SavedTriple(files) ==
    /\ files.short.kind = "archive"
    /\ files.long.kind = "archive"
    /\ files.state.kind = "object"
    /\ DOMAIN files.state.fields = {"threshold", "risk"}

\* C22: when the process ended by shutdown or by a kill, also one inside a
\* tick, and the files held the result of a completed _save_all_state
\* before the tick it was killed in, the engine constructed at the restart
\* has exactly the saved mu, cov and cov_inv in each model, the saved
\* threshold and risk, and is in Monitoring.
C22_RestartRoundTrip ==
    [][(last'.op = "construct" /\ last.op \in {"kill", "shutdown"}) =>
          LET saved == IF "before" \in DOMAIN last THEN last.before ELSE disk
          IN SavedTriple(saved) =>
                 /\ proc' = "up" /\ ~is_training'
                 /\ model_short'.mu = saved.short.mu
                 /\ model_short'.cov = saved.short.cov
                 /\ model_short'.cov_inv = saved.short.cov_inv
                 /\ model_long'.mu = saved.long.mu
                 /\ model_long'.cov = saved.long.cov
                 /\ model_long'.cov_inv = saved.long.cov_inv
                 /\ model_short'.threshold = saved.state.fields["threshold"]
                 /\ model_long'.threshold = saved.state.fields["threshold"]
                 /\ risk' = saved.state.fields["risk"]]_vars

\* C23: while the engine is in Training, as it is from trigger_retraining
\* on, no step changes the files except the tick that initialises the
\* models again (or the death of the process inside that tick's save); and
\* when the process, killed or shut down in Training with an earlier save
\* on disk, starts again, it has the models of that save and is in
\* Monitoring.
C23_RetrainKeepsFiles ==
    [][/\ (/\ is_training
           /\ ~(last'.op = "tick" /\ last'.mode = "training"
                /\ last'.complete)
           /\ ~(last'.op = "kill" /\ "before" \in DOMAIN last'))
              => disk' = disk
       /\ (/\ last'.op = "construct"
           /\ is_training
           /\ last.op \in {"kill", "shutdown"}
           /\ "before" \notin DOMAIN last
           /\ SavedTriple(disk))
              => /\ proc' = "up" /\ ~is_training'
                 /\ model_short'.is_initialized /\ model_long'.is_initialized
                 /\ load_model(disk.short) =
                        [mu |-> model_short'.mu, cov |-> model_short'.cov,
                         cov_inv |-> model_short'.cov_inv]
                 /\ load_model(disk.long) =
                        [mu |-> model_long'.mu, cov |-> model_long'.cov,
                         cov_inv |-> model_long'.cov_inv]]_vars

\* A process that was retraining, with a training tick behind it and the
\* earlier save on disk, has been killed and can start again.
C23_Witness ==
    /\ proc = "down" /\ last.op = "kill" /\ "before" \notin DOMAIN last
    /\ is_training /\ training_buffer # <<>>
    /\ training_target \in RetrainTargets
    /\ SavedTriple(disk)
    /\ restarts < MaxRestarts

\* C24: a monitoring tick whose severity is at or above CONTAMINATION_LIMIT
\* leaves mu and cov of the short and of the long model as they were,
\* whatever the risk and the CUSUM sum were when it began.
C24_ContaminationGate ==
    [][(/\ Called /\ last'.mode = "monitoring"
        /\ last'.severity >= CONTAMINATION_LIMIT)
          => /\ model_short'.mu = model_short.mu
             /\ model_short'.cov = model_short.cov
             /\ model_long'.mu = model_long.mu
             /\ model_long'.cov = model_long.cov]_vars

\* C25: with the models initialised and the input steady at one offset,
\* the drift signal fires once: a monitoring tick that follows a monitoring
\* tick in which drift was reported, the smoothing window holding the one
\* steady reading throughout, does not report drift again.
C25_DriftOnce ==
    [][(/\ Called /\ last'.mode = "monitoring"
        /\ last.op = "tick" /\ last.mode = "monitoring"
        /\ last.is_drift
        /\ \A i \in 1..Len(window') : window'[i] = window[1])
          => ~last'.is_drift]_vars

\* C26: in every state the engine reaches, through ticks, retrains,
\* shutdowns, kills and restarts over its own files, the accumulated risk
\* and the CUSUM sum are at least 0.
C26_NonNegative ==
    /\ risk >= 0
    /\ c_t >= 0

\* An engine constructed at a restart has taken a positive risk from the
\* state file the process before it saved.
C26_Witness ==
    /\ last.op = "construct" /\ restarts >= 1
    /\ proc = "up" /\ ~is_training
    /\ risk > 0
    /\ disk.state.kind = "object" /\ disk.state.fields["risk"] = risk

\* C27: the smoothing window never holds more than window_size vectors and
\* is empty after construction; each tick appends its sample and drops the
\* oldest of a full window; the tick has no smoothed vector exactly while
\* the window is short of window_size, and otherwise its vector is the
\* element-wise mean of the window; a tick without a smoothed vector
\* changes nothing of the engine but the window and emits no snapshot.
C27_SmootherWindow ==
    [][/\ Len(window') <= window_size
       /\ last'.op = "construct" => window' = <<>>
       /\ Called =>
              /\ Len(window') >= 1
              /\ window' = IF Len(window) < window_size
                           THEN Append(window, window'[Len(window')])
                           ELSE Append(Tail(window), window'[Len(window')])
              /\ (last'.mode = "warming") = (Len(window') < window_size)
              /\ last'.mode # "warming" =>
                     \A i \in Idx :
                         IsMeanOf(last'.x_t[i],
                                  [n \in 1..window_size |-> window'[n][i]])
              /\ last'.mode = "warming" =>
                     /\ <<training_buffer, training_target, is_training,
                          model_short, model_long, risk, c_t, disk>>'
                            = <<training_buffer, training_target, is_training,
                                model_short, model_long, risk, c_t, disk>>
                     /\ ui' = ui]_vars

\* A tick has just smoothed a full window that has already dropped samples
\* and holds differing ones.
C27_Witness ==
    /\ last.op = "tick" /\ last.mode # "warming"
    /\ Len(window) = window_size
    /\ ticks > window_size
    /\ window[1] # window[window_size]
    /\ last.x_t # window[1] /\ last.x_t # window[window_size]

\* The k-th regularisation value safe_invert is to try, k = 0, 1, ...
TryEpsilon(k) == EPSILON_BASE * 10 ^ k

\* The matrix regularised at the k-th value is well conditioned (and so
\* can be inverted).
TrySucceeds(cov, k) ==
    check_condition_number(apply_regularization(cov, TryEpsilon(k)))
        < CONDITION_NUMBER

\* C28: safe_invert returns the inverse of the matrix regularised at the
\* first of EPSILON_BASE, 10 EPSILON_BASE, ..., 10^4 EPSILON_BASE that makes
\* it well conditioned, with frozen false and that value; when none of the
\* five does, and only then, it returns frozen true with the
\* pseudo-inverse of the matrix regularised at EPSILON_BASE, and
\* EPSILON_BASE.
C28_SafeInvert ==
    [][(Called /\ last'.op = "safe_invert") =>
          LET cov == last'.cov
              good == {k \in 0..4 : TrySucceeds(cov, k)}
          IN IF good # {}
             THEN LET k == CHOOSE k \in good : \A j \in good : k <= j
                  IN last'.returned =
                         <<linalg_inv(apply_regularization(cov, TryEpsilon(k))),
                           FALSE, TryEpsilon(k)>>
             ELSE last'.returned =
                      <<linalg_pinv(apply_regularization(cov, EPSILON_BASE)),
                        TRUE, EPSILON_BASE>>]_vars

\* A call after the first has returned for a covariance that only the
\* fifth value repairs.
C28_Witness ==
    /\ last.op = "safe_invert"
    /\ ~last.returned[2] /\ last.returned[3] = TryEpsilon(4)
    /\ ticks >= 2

C30_StoredCovRegularised ==
    (last.op \in {"initialize_from_batch", "update"}) =>
        LET m == Model(last.which)
        IN (m.is_initialized /\ ~m.is_frozen) =>
               m.cov_inv.inverse_of = apply_regularization(m.cov, 0)

\* The engine after this step holds what `files` hold: both models' arrays,
\* the threshold and the risk.
LoadedFrom(files) ==
    /\ model_short'.mu = files.short.mu
    /\ model_short'.cov = files.short.cov
    /\ model_short'.cov_inv = files.short.cov_inv
    /\ model_long'.mu = files.long.mu
    /\ model_long'.cov = files.long.cov
    /\ model_long'.cov_inv = files.long.cov_inv
    /\ model_short'.threshold = files.state.fields["threshold"]
    /\ model_long'.threshold = files.state.fields["threshold"]
    /\ risk' = files.state.fields["risk"]

\* C31: when the process was killed inside _save_all_state, after none, one
\* or two of its three writes, over files that an earlier save had written,
\* the engine constructed at the next start holds one generation: either
\* everything the earlier save wrote or everything the interrupted save
\* was writing.
C31_OneGeneration ==
    [][(/\ last'.op = "construct"
        /\ last.op = "kill" /\ "complete" \in DOMAIN last
        /\ SavedTriple(last.before)) =>
           LoadedFrom(last.before) \/ LoadedFrom(last.complete)]_vars

\* ------------- a tick that completes training, and EngineWorker.stop,
\* ------------- statement by statement
\* One worker thread, started once, over the files of an earlier run.  A
\* tick that completes training is taken in three steps, the UI thread's
\* trigger_retraining and the steps of EngineWorker.stop falling anywhere
\* between them; every other tick is one step, as is trigger_retraining.
InitRace == Init /\ disk = PriorDisk

\* _handle_training as far as the call of _save_all_state: the sample is
\* appended, progress >= training_target holds and both models are
\* initialised from the buffer.
RaceInitialize(w, raw_metrics) ==
    LET sm == smoother_process(window, raw_metrics)
        x_t == sm[2]
        buffer == Append(training_buffer, x_t)
    IN /\ sched.pc[w] = "tick" /\ frame.worker = "idle"
       /\ proc = "up" /\ ticks < MaxSchedTicks
       /\ x_t # None
       /\ is_training
       /\ TrainingComplete(Len(buffer), training_target)
       /\ window' = sm[1]
       /\ training_buffer' = buffer
       /\ model_short' = initialize_from_batch(model_short, buffer)
       /\ model_long' = initialize_from_batch(model_long, buffer)
       /\ frame' = [frame EXCEPT !.worker = "saving",
                                 !.progress = Len(buffer),
                                 !.metrics = raw_metrics]
       /\ ticks' = ticks + 1
       /\ last' = [op |-> "tick", mode |-> "training", x_t |-> x_t,
                   complete |-> TRUE]
       /\ sched' = Step(sched, "tick", "worker")
       /\ UNCHANGED <<proc, disk, training_target, is_training, risk, c_t,
                      ui, restarts, channel, aw>>

\* The worker's _save_all_state, from the engine as it is now.
RaceSave(w) ==
    /\ sched.pc[w] = "tick" /\ frame.worker = "saving"
    /\ disk' = save_all_state(disk, model_short, model_long, risk)
    /\ frame' = [frame EXCEPT !.worker = "saved"]
    /\ last' = [op |-> "save"]
    /\ sched' = Step(sched, "tick", "worker")
    /\ UNCHANGED <<proc, window, training_target, training_buffer,
                   is_training, model_short, model_long, risk, c_t, ui,
                   ticks, restarts, channel, aw>>

\* The rest of _handle_training: training_buffer.clear(), is_training =
\* False, the snapshot to ui_callback; tick returns.
RaceReturn(w) ==
    /\ sched.pc[w] = "tick" /\ frame.worker = "saved"
    /\ training_buffer' = <<>>
    /\ is_training' = FALSE
    /\ ui' = [mode |-> "training", progress |-> frame.progress,
              target |-> training_target, metrics |-> frame.metrics]
    /\ channel' = data_emitted(channel, ticks)
    /\ frame' = [frame EXCEPT !.worker = "idle"]
    /\ last' = [op |-> "tick_return", cleared |-> Len(training_buffer),
                target |-> training_target]
    /\ sched' = Step(tick_returned(sched, w, FALSE), "tick", "worker")
    /\ UNCHANGED <<proc, disk, window, training_target, model_short,
                   model_long, risk, c_t, ticks, restarts, aw>>

\* EngineWorker.stop: scheduler.stop() sets the event and joins the worker.
RaceStop ==
    /\ frame.controller = "idle" /\ sched.thread # 0
    /\ sched' = Step(scheduler_stop(sched), "stop", "controller")
    /\ frame' = [frame EXCEPT !.controller = "join"]
    /\ UNCHANGED <<inside, channel, aw>>

\* join(timeout=2.0) returns, the worker ended or the two seconds passed,
\* and engine.shutdown() reads is_training.
RaceShutdown ==
    /\ frame.controller = "join"
    /\ sched' = Step([sched EXCEPT !.joining = FALSE], "shutdown",
                     "controller")
    /\ frame' = [frame EXCEPT !.controller = IF is_training THEN "done"
                                             ELSE "saving",
                              !.written = 0]
    /\ UNCHANGED <<inside, channel, aw>>

\* shutdown's _save_all_state, one atomic write at a time, each from the
\* engine as it is when the write is made.
RaceShutdownWrite ==
    /\ frame.controller = "saving"
    /\ disk' =
           IF frame.written = 0
           THEN [disk EXCEPT !.short =
                    save_model(disk.short, model_short.mu, model_short.cov,
                               model_short.cov_inv)]
           ELSE IF frame.written = 1
           THEN [disk EXCEPT !.long =
                    save_model(disk.long, model_long.mu, model_long.cov,
                               model_long.cov_inv)]
           ELSE [disk EXCEPT !.state =
                    save_state([threshold |-> model_long.threshold,
                                risk |-> risk])]
    /\ frame' = [frame EXCEPT !.written = @ + 1,
                              !.controller = IF frame.written = 2 THEN "done"
                                             ELSE "saving"]
    /\ last' = [op |-> "shutdown_write", file |-> frame.written + 1]
    /\ sched' = Step(sched, "shutdown", "controller")
    /\ UNCHANGED <<proc, window, training_target, training_buffer,
                   is_training, model_short, model_long, risk, c_t, ui,
                   ticks, restarts, channel, aw>>

NextRace ==
    \/ sched.thread = 0 /\ SchedulerStart
    \/ \E w \in Workers : LoopTest(w)
    \/ \E w \in Workers : \E raw_metrics \in SchedMetrics :
           frame.worker = "idle" /\ WorkerTickWarming(w, raw_metrics)
    \/ \E w \in Workers : \E raw_metrics \in SchedMetrics :
           /\ frame.worker = "idle"
           /\ ~TrainingComplete(Len(training_buffer) + 1, training_target)
           /\ WorkerTickTraining(w, raw_metrics)
    \/ \E w \in Workers : \E raw_metrics \in SchedMetrics :
           frame.worker = "idle" /\ WorkerTickMonitoring(w, raw_metrics)
    \/ \E w \in Workers : \E raw_metrics \in SchedMetrics :
           RaceInitialize(w, raw_metrics)
    \/ \E w \in Workers : RaceSave(w)
    \/ \E w \in Workers : RaceReturn(w)
    \/ \E w \in Workers : WorkerWait(w)
    \/ \E target_seconds \in RetrainTargets :
           frame.controller = "idle" /\ UiRetrain(target_seconds)
    \/ RaceStop
    \/ RaceShutdown
    \/ RaceShutdownWrite

SpecRace == InitRace /\ [][NextRace]_vars

\* C32: the engine leaves Training only in a tick's return that has the
\* samples asked for in the buffer: when is_training goes from TRUE to
\* FALSE, at least training_target samples were appended since the buffer
\* was last cleared, which trigger_retraining does.  So after a
\* trigger_retraining(n) the mode stays Training for n further samples,
\* also when the call falls inside a tick.
C32_RetrainEffective ==
    [][(is_training /\ ~is_training') =>
           Len(training_buffer) >= training_target]_vars

\* C33: while EngineWorker.stop is inside engine.shutdown's
\* _save_all_state, the worker is in no tick: no tick begins or goes on,
\* and the engine state shutdown writes is not changed under it.
C33_ShutdownAfterLastTick ==
    [][(frame.controller = "saving") =>
           /\ ticks' = ticks
           /\ frame'.worker = frame.worker
           /\ <<model_short, model_long, risk>>' =
                  <<model_short, model_long, risk>>]_vars

\* At most one thread is inside _save_all_state.
OneThreadSaving == ~(frame.controller = "saving" /\ frame.worker = "saving")

====
